---- MODULE Spec2Model ----
(***************************************************************************)
(* MonarchOmimMapper (mapper.js): the two in-memory mapping tables, the    *)
(* asynchronous loadMappings started by the constructor, and the four      *)
(* synchronous lookups, which a caller may invoke at any turn of the event *)
(* loop, the turns between the awaits of loadMappings included.            *)
(*                                                                         *)
(* A JavaScript string is a sequence of one-character strings; every       *)
(* JavaScript value is a record, so that any two values can be compared.   *)
(***************************************************************************)
EXTENDS Integers, Sequences, FiniteSets, TLC

VARIABLES monarchMappings, omimMappings, pc, responses, monarchFile, omimFile,
          consoleErrors, lastCall

vars == <<monarchMappings, omimMappings, pc, responses, monarchFile, omimFile,
          consoleErrors, lastCall>>

\* Longest run of blanks put around an identifier passed to a lookup.
MaxPad == 1

(***************************************************************************)
(* JavaScript values                                                       *)
(***************************************************************************)
undefined == [type |-> "undefined"]

null == [type |-> "null"]

JsString(chars) == [type |-> "string", chars |-> chars]

JsNumber(num) == [type |-> "number", num |-> num]

JsFunction(name) == [type |-> "function", name |-> JsString(name)]

\* ToBoolean, as `!monarchId` and `data ? ... : ...` apply it.
Truthy(v) ==
    /\ v # undefined
    /\ v # null
    /\ v # JsString(<<>>)
    /\ v # JsNumber(0)

\* a || b
OrElse(a, b) == IF Truthy(a) THEN a ELSE b

Return(v) == [kind |-> "return", value |-> v]

\* Calling a method the receiver does not have: monarchId.trim is undefined
\* on a number, and calling undefined throws.
Throw(e) == [kind |-> "throw", value |-> JsString(e)]

TypeError == <<"T", "y", "p", "e", "E", "r", "r", "o", "r">>

(***************************************************************************)
(* String.prototype.trim, toUpperCase and replace(string, string)          *)
(***************************************************************************)
WhiteSpace == {" "}

LowerCase == <<"a", "b", "c", "d", "e", "f", "g", "h", "i", "j", "k", "l", "m",
               "n", "o", "p", "q", "r", "s", "t", "u", "v", "w", "x", "y", "z">>

UpperCase == <<"A", "B", "C", "D", "E", "F", "G", "H", "I", "J", "K", "L", "M",
               "N", "O", "P", "Q", "R", "S", "T", "U", "V", "W", "X", "Y", "Z">>

toUpperCaseChar(c) ==
    IF \E i \in 1..Len(LowerCase) : LowerCase[i] = c
    THEN UpperCase[CHOOSE i \in 1..Len(LowerCase) : LowerCase[i] = c]
    ELSE c

toUpperCase(s) == [i \in 1..Len(s) |-> toUpperCaseChar(s[i])]

trim(s) ==
    LET kept == {i \in 1..Len(s) : s[i] \notin WhiteSpace}
        first == CHOOSE i \in kept : \A j \in kept : i <= j
        last == CHOOSE i \in kept : \A j \in kept : j <= i
    IN  IF kept = {} THEN <<>> ELSE SubSeq(s, first, last)

\* The places where pattern occurs in s.
Occurrences(s, pattern) ==
    {i \in 1..(Len(s) - Len(pattern) + 1) :
        SubSeq(s, i, i + Len(pattern) - 1) = pattern}

\* s.replace(pattern, replacement) with a string pattern: the first
\* occurrence only, wherever it is.
replace(s, pattern, replacement) ==
    LET at == Occurrences(s, pattern)
        i == CHOOSE k \in at : \A j \in at : k <= j
    IN  IF at = {} THEN s
        ELSE SubSeq(s, 1, i - 1) \o replacement
                \o SubSeq(s, i + Len(pattern), Len(s))

OMIM_PREFIX == <<"O", "M", "I", "M", ":">>

(***************************************************************************)
(* Objects: the tables are plain objects ({} or parsed JSON), so a         *)
(* property read falls through to Object.prototype.                        *)
(***************************************************************************)
EmptyObject == <<>>

constructorKey == <<"c", "o", "n", "s", "t", "r", "u", "c", "t", "o", "r">>

toStringKey == <<"t", "o", "S", "t", "r", "i", "n", "g">>

ObjectPrototype ==
    [k \in {constructorKey, toStringKey} |->
        IF k = constructorKey
        THEN JsFunction(<<"O", "b", "j", "e", "c", "t">>)
        ELSE JsFunction(toStringKey)]

\* object[key]
Get(object, key) ==
    IF key \in DOMAIN object THEN object[key]
    ELSE IF key \in DOMAIN ObjectPrototype THEN ObjectPrototype[key]
    ELSE undefined

(***************************************************************************)
(* The two persisted documents, ./data/monarch-omim.json and               *)
(* ./data/omim-monarch.json.  A document is either JSON text holding a     *)
(* table in the persisted format, or text response.json() cannot parse     *)
(* (a truncated file, or the server's error page for a missing file:       *)
(* fetch fulfils on an HTTP error status and the code never looks at it).  *)
(***************************************************************************)
HP1 == <<"H", "P", ":", "1">>

HP2 == <<"H", "P", ":", "2">>

\* Knowledge-base ids, in the order a forward document lists them.
KbIds == <<HP1, HP2>>

NameOf(kbId) == IF kbId = HP1 THEN <<"A">> ELSE <<"B">>

ForwardRecord(externalId, name) ==
    [externalId |-> JsString(externalId), name |-> JsString(name)]

ReverseRecord(knowledgeBaseId, name) ==
    [knowledgeBaseId |-> JsString(knowledgeBaseId), name |-> JsString(name)]

Range(f) == {f[k] : k \in DOMAIN f}

\* The forward tables a build may have left in storage: none or some of the
\* ids mapped, to different catalog numbers or to the same one.
ForwardTables ==
    {EmptyObject,
     [k \in {HP1} |-> ForwardRecord(<<"1">>, NameOf(k))],
     [k \in {HP1, HP2} |->
        ForwardRecord(IF k = HP1 THEN <<"1">> ELSE <<"1", "2">>, NameOf(k))],
     [k \in {HP1, HP2} |-> ForwardRecord(<<"1">>, NameOf(k))]}

\* The reverse index of a forward table: one pass in the forward table's
\* enumeration order, a later entry overwriting an earlier one with the same
\* external id.
RECURSIVE ReverseOfFirst(_, _)
ReverseOfFirst(forward, n) ==
    IF n = 0 THEN EmptyObject
    ELSE LET before == ReverseOfFirst(forward, n - 1)
             k == KbIds[n]
         IN  IF k \notin DOMAIN forward THEN before
             ELSE LET e == forward[k].externalId.chars
                      r == ReverseRecord(k, forward[k].name.chars)
                  IN  [x \in DOMAIN before \cup {e} |->
                          IF x = e THEN r ELSE before[x]]

BuildReverse(forward) == ReverseOfFirst(forward, Len(KbIds))

\* A forward table of an earlier build, whose reverse index may still be the
\* one in storage.
EarlierForward == [k \in {HP1} |-> ForwardRecord(<<"1", "2">>, NameOf(k))]

JsonText(table) == [parses |-> TRUE, json |-> table]

Unparseable == [parses |-> FALSE, json |-> EmptyObject]

MonarchDocuments == {JsonText(t) : t \in ForwardTables} \cup {Unparseable}

OmimDocuments(monarchDocument) ==
    {JsonText(BuildReverse(monarchDocument.json)),
     JsonText(BuildReverse(EarlierForward)),
     Unparseable}

(***************************************************************************)
(* The lookups (mapper.js, lines 35-57)                                    *)
(***************************************************************************)
\* monarchId.trim().toUpperCase(), monarchId a string
cleanMonarchId(monarchId) == toUpperCase(trim(monarchId.chars))

\* omimId.replace('OMIM:', '').trim(), omimId a string
cleanOmimId(omimId) == trim(replace(omimId.chars, OMIM_PREFIX, <<>>))

\* The lookup with toUpperCase left out.
getMonarchToOmim_CaseSensitive(monarchId) ==
    IF ~Truthy(monarchId) THEN Return(null)
    ELSE IF monarchId.type # "string" THEN Throw(TypeError)
    ELSE Return(OrElse(Get(monarchMappings, trim(monarchId.chars)), null))

getMonarchToOmim(monarchId) ==
    IF ~Truthy(monarchId) THEN Return(null)
    ELSE IF monarchId.type # "string" THEN Throw(TypeError)
    ELSE Return(OrElse(Get(monarchMappings, cleanMonarchId(monarchId)), null))

getOmimToMonarch(omimId) ==
    IF ~Truthy(omimId) THEN Return(null)
    ELSE IF omimId.type # "string" THEN Throw(TypeError)
    ELSE Return(OrElse(Get(omimMappings, cleanOmimId(omimId)), null))

getDiseaseName(monarchId) ==
    LET data == getMonarchToOmim(monarchId)
    IN  IF data.kind = "throw" THEN data
        ELSE Return(IF Truthy(data.value) THEN data.value.name ELSE null)

\* The accessor calling the forward lookup, as getDiseaseName does.
getOmimName_ForwardLookup(omimId) ==
    LET data == getMonarchToOmim(omimId)
    IN  IF data.kind = "throw" THEN data
        ELSE Return(IF Truthy(data.value) THEN data.value.name ELSE null)

getOmimName(omimId) ==
    LET data == getOmimToMonarch(omimId)
    IN  IF data.kind = "throw" THEN data
        ELSE Return(IF Truthy(data.value) THEN data.value.name ELSE null)

(***************************************************************************)
(* What callers pass                                                       *)
(***************************************************************************)
Pad(n) == [i \in 1..n |-> " "]

\* body with at most MaxPad blanks before it or after it.
Padded(body) ==
    {Pad(n) \o body : n \in 0..MaxPad} \cup {body \o Pad(n) : n \in 0..MaxPad}

NonStrings == {undefined, null, JsNumber(0), JsNumber(154700)}

MonarchIdBodies ==
    {<<>>, HP1, <<"h", "p", ":", "1">>, constructorKey}

OmimIdBodies ==
    {<<>>, <<"1">>,
     OMIM_PREFIX \o <<"1">>,
     <<"o", "m", "i", "m", ":", "1">>,
     <<"1">> \o OMIM_PREFIX \o <<"2">>,
     constructorKey}

MonarchIds == NonStrings \cup {JsString(s) : s \in UNION {Padded(b) : b \in MonarchIdBodies}}

OmimIds == NonStrings \cup {JsString(s) : s \in UNION {Padded(b) : b \in OmimIdBodies}}

NoCall == [op |-> "none", arg |-> undefined, result |-> Return(undefined), at |-> "new"]

Call(op, arg, result) == [op |-> op, arg |-> arg, result |-> result, at |-> pc]

(***************************************************************************)
(* Construction and loadMappings (mapper.js, lines 12-33)                  *)
(***************************************************************************)
\* The state when `new MonarchOmimMapper()` returns: both tables {}, and
\* loadMappings suspended at its first await with both fetches in flight.
Init ==
    /\ monarchMappings = EmptyObject
    /\ omimMappings = EmptyObject
    /\ pc = "awaitFetch"
    /\ responses = [monarch |-> "pending", omim |-> "pending"]
    /\ monarchFile \in MonarchDocuments
    /\ omimFile \in OmimDocuments(monarchFile)
    /\ consoleErrors = 0
    /\ lastCall = NoCall

\* The catch block with line 30 left out.
Catch_KeepsMonarch ==
    /\ consoleErrors' = consoleErrors + 1
    /\ monarchMappings' = monarchMappings
    /\ omimMappings' = EmptyObject
    /\ pc' = "done"

\* catch (error) { console.error(...); both tables = {} }, after which the
\* async function returns.
Catch ==
    /\ consoleErrors' = consoleErrors + 1
    /\ monarchMappings' = EmptyObject
    /\ omimMappings' = EmptyObject
    /\ pc' = "done"

\* A fetch fulfils.  Promise.all fulfils with the second one, and
\* loadMappings resumes and calls monarchResponse.json().
FetchFulfils ==
    \E r \in {"monarch", "omim"} :
        /\ pc = "awaitFetch"
        /\ responses[r] = "pending"
        /\ responses' = [responses EXCEPT ![r] = "fulfilled"]
        /\ pc' = IF \A q \in DOMAIN responses' : responses'[q] = "fulfilled"
                 THEN "awaitMonarchJson" ELSE "awaitFetch"
        /\ UNCHANGED <<monarchMappings, omimMappings, monarchFile, omimFile,
                       consoleErrors, lastCall>>

\* A fetch rejects (a network error): Promise.all rejects at once and the
\* await throws into the catch block.
FetchRejects ==
    \E r \in {"monarch", "omim"} :
        /\ pc = "awaitFetch"
        /\ responses[r] = "pending"
        /\ responses' = [responses EXCEPT ![r] = "rejected"]
        /\ Catch
        /\ UNCHANGED <<monarchFile, omimFile, lastCall>>

\* this.monarchMappings = await monarchResponse.json(); then
\* omimResponse.json() is called and awaited.
MonarchJsonSettles ==
    /\ pc = "awaitMonarchJson"
    /\ IF monarchFile.parses
       THEN /\ monarchMappings' = monarchFile.json
            /\ pc' = "awaitOmimJson"
            /\ UNCHANGED <<omimMappings, consoleErrors>>
       ELSE Catch
    /\ UNCHANGED <<responses, monarchFile, omimFile, lastCall>>

\* Line 27 assigning to the field line 26 assigns to.
OmimJsonSettles_WrongField ==
    /\ pc = "awaitOmimJson"
    /\ IF omimFile.parses
       THEN /\ monarchMappings' = omimFile.json
            /\ pc' = "done"
            /\ UNCHANGED <<omimMappings, consoleErrors>>
       ELSE Catch
    /\ UNCHANGED <<responses, monarchFile, omimFile, lastCall>>

\* this.omimMappings = await omimResponse.json(); the function returns.
OmimJsonSettles ==
    /\ pc = "awaitOmimJson"
    /\ IF omimFile.parses
       THEN /\ omimMappings' = omimFile.json
            /\ pc' = "done"
            /\ UNCHANGED <<monarchMappings, consoleErrors>>
       ELSE Catch
    /\ UNCHANGED <<responses, monarchFile, omimFile, lastCall>>

(***************************************************************************)
(* A caller invokes a lookup, in any turn of the event loop.               *)
(***************************************************************************)
Unobserved == <<monarchMappings, omimMappings, pc, responses, monarchFile,
                omimFile, consoleErrors>>

\* A lookup that stores what it found under the id as passed.
CallGetMonarchToOmim_Memoising ==
    \E id \in MonarchIds :
        LET result == getMonarchToOmim(id)
        IN  /\ lastCall' = Call("getMonarchToOmim", id, result)
            /\ monarchMappings' =
                 IF result.kind = "return" /\ Truthy(result.value)
                 THEN [k \in DOMAIN monarchMappings \cup {id.chars} |->
                         IF k = id.chars THEN result.value ELSE monarchMappings[k]]
                 ELSE monarchMappings
            /\ UNCHANGED <<omimMappings, pc, responses, monarchFile, omimFile,
                           consoleErrors>>

CallGetMonarchToOmim ==
    \E id \in MonarchIds :
        /\ lastCall' = Call("getMonarchToOmim", id, getMonarchToOmim(id))
        /\ UNCHANGED Unobserved

CallGetOmimToMonarch ==
    \E id \in OmimIds :
        /\ lastCall' = Call("getOmimToMonarch", id, getOmimToMonarch(id))
        /\ UNCHANGED Unobserved

CallGetDiseaseName ==
    \E id \in MonarchIds :
        /\ lastCall' = Call("getDiseaseName", id, getDiseaseName(id))
        /\ UNCHANGED Unobserved

CallGetOmimName ==
    \E id \in OmimIds :
        /\ lastCall' = Call("getOmimName", id, getOmimName(id))
        /\ UNCHANGED Unobserved

Next ==
    \/ FetchFulfils
    \/ FetchRejects
    \/ MonarchJsonSettles
    \/ OmimJsonSettles
    \/ CallGetMonarchToOmim
    \/ CallGetOmimToMonarch
    \/ CallGetDiseaseName
    \/ CallGetOmimName

Spec == Init /\ [][Next]_vars

(***************************************************************************)
(* Properties                                                              *)
(***************************************************************************)
\* The table named r could not be fetched or parsed.
LoadFailed(r) ==
    \/ responses[r] = "rejected"
    \/ ~(IF r = "monarch" THEN monarchFile ELSE omimFile).parses

AnyLoadFailure == LoadFailed("monarch") \/ LoadFailed("omim")

\* What the call `op(arg)` returns in the current state.
Lookup(op, arg) ==
    CASE op = "getMonarchToOmim" -> getMonarchToOmim(arg)
      [] op = "getOmimToMonarch" -> getOmimToMonarch(arg)
      [] op = "getDiseaseName" -> getDiseaseName(arg)
      [] op = "getOmimName" -> getOmimName(arg)
      [] OTHER -> Return(undefined)

\* The last call was made in the current stage of the load, so the tables it
\* read are the current ones.
CalledNow(op) == lastCall.op = op /\ lastCall.at = pc

StoredRecords == Range(monarchFile.json) \cup Range(omimFile.json)

\* C1: if fetching or parsing of either mapping file fails, the load ends
\* with both tables empty and every later call of the four lookups returns
\* null.
C1_FailedLoadThenEveryLookupNull ==
    (pc = "done" /\ AnyLoadFailure) =>
        /\ monarchMappings = EmptyObject
        /\ omimMappings = EmptyObject
        /\ consoleErrors = 1
        /\ (lastCall.at = "done" => lastCall.result = Return(null))

ExactlyOneLoadFailed == LoadFailed("monarch") # LoadFailed("omim")

\* C2, as claimed: if exactly one table cannot be fetched or parsed, that
\* table is empty while the other table, fetched and parseable, is kept and
\* lookups in its direction still return its records.
C2_Original_OtherTableKept ==
    (/\ pc = "done"
     /\ ExactlyOneLoadFailed
     /\ \A r \in DOMAIN responses : ~LoadFailed(r) => responses[r] = "fulfilled") =>
        IF LoadFailed("omim")
        THEN /\ omimMappings = EmptyObject
             /\ monarchMappings = monarchFile.json
             /\ \A k \in DOMAIN monarchFile.json :
                    getMonarchToOmim(JsString(k)) = Return(monarchFile.json[k])
        ELSE /\ monarchMappings = EmptyObject
             /\ omimMappings = omimFile.json
             /\ \A k \in DOMAIN omimFile.json :
                    getOmimToMonarch(JsString(k)) = Return(omimFile.json[k])

\* C2, amended: if exactly one table cannot be fetched or parsed, both tables
\* end empty (the other table is not kept) and no lookup in either direction
\* returns a record of a persisted table.
C2_Amended_BothTablesEmpty ==
    (pc = "done" /\ ExactlyOneLoadFailed) =>
        /\ monarchMappings = EmptyObject
        /\ omimMappings = EmptyObject
        /\ \A id \in MonarchIds :
            /\ getMonarchToOmim(id).value \notin StoredRecords
            /\ getDiseaseName(id).value \notin {r.name : r \in StoredRecords}
        /\ \A id \in OmimIds :
            /\ getOmimToMonarch(id).value \notin StoredRecords
            /\ getOmimName(id).value \notin {r.name : r \in StoredRecords}
        /\ \A k \in DOMAIN monarchFile.json :
            getMonarchToOmim(JsString(k)) = Return(null)
        /\ \A k \in DOMAIN omimFile.json :
            getOmimToMonarch(JsString(k)) = Return(null)

\* The reverse file failed to parse after the forward file had parsed, and a
\* lookup of a persisted forward key, made after the load ended, missed.
C2_Witness ==
    /\ pc = "done"
    /\ LoadFailed("omim")
    /\ ~LoadFailed("monarch")
    /\ HP1 \in DOMAIN monarchFile.json
    /\ monarchMappings = EmptyObject
    /\ lastCall = [op |-> "getMonarchToOmim", arg |-> JsString(HP1),
                   result |-> Return(null), at |-> "done"]

\* C3: for every argument and in every state of the service, each of the
\* four lookups returns a value and never throws.
C3_LookupsNeverThrow == lastCall.result.kind = "return"

\* C4: a lookup returns null for an id that is empty, null or whose
\* normalized form is not a key of the table, and exactly the stored record
\* for an id whose normalized form is a key.
C4_StoredRecordOrNull ==
    /\ (CalledNow("getMonarchToOmim") /\ lastCall.arg.type # "number") =>
        lastCall.result =
            IF lastCall.arg.type = "string"
                /\ cleanMonarchId(lastCall.arg) \in DOMAIN monarchMappings
            THEN Return(monarchMappings[cleanMonarchId(lastCall.arg)])
            ELSE Return(null)
    /\ (CalledNow("getOmimToMonarch") /\ lastCall.arg.type # "number") =>
        lastCall.result =
            IF lastCall.arg.type = "string"
                /\ cleanOmimId(lastCall.arg) \in DOMAIN omimMappings
            THEN Return(omimMappings[cleanOmimId(lastCall.arg)])
            ELSE Return(null)

NonEmptyStrings(ids) == {id \in ids : id.type = "string" /\ id.chars # <<>>}

\* C5: for every non-empty id and every table state, getMonarchToOmim(id)
\* returns what it returns for the trimmed, upper-cased id.
C5_CaseAndBlankInsensitive ==
    \A id \in NonEmptyStrings(MonarchIds) :
        getMonarchToOmim(id) = getMonarchToOmim(JsString(toUpperCase(trim(id.chars))))

\* A lower-case id hit the record stored under the upper-case key.
C5_Witness ==
    /\ HP1 \in DOMAIN monarchMappings
    /\ CalledNow("getMonarchToOmim")
    /\ lastCall.arg = JsString(<<"h", "p", ":", "1">>)
    /\ lastCall.result = Return(monarchMappings[HP1])

\* The id without the namespace token, when the id starts with it.
StripPrefix(s) ==
    IF Len(s) >= Len(OMIM_PREFIX) /\ SubSeq(s, 1, Len(OMIM_PREFIX)) = OMIM_PREFIX
    THEN SubSeq(s, Len(OMIM_PREFIX) + 1, Len(s))
    ELSE s

\* C6: getOmimToMonarch strips "OMIM:" when and only when the id starts with
\* it, then trims; an id holding the token elsewhere is looked up unstripped.
\* (Stated for ids that do not start with a blank.)
C6_StripsOnlyAPrefix ==
    (/\ CalledNow("getOmimToMonarch")
     /\ lastCall.arg \in NonEmptyStrings(OmimIds)
     /\ lastCall.arg.chars[1] \notin WhiteSpace) =>
        lastCall.result =
            Return(OrElse(Get(omimMappings, trim(StripPrefix(lastCall.arg.chars))), null))

NoCollisions(forward) ==
    \A j, k \in DOMAIN forward :
        j # k => forward[j].externalId # forward[k].externalId

\* C7: when the reverse file is the one derived from the forward file and no
\* two forward entries share an external id, then after a successful load,
\* for every forward entry k -> {e, n}, getOmimToMonarch(e) returns
\* {knowledgeBaseId: k, name: n} and getMonarchToOmim(k) returns {e, n}.
C7_RoundTrip ==
    (/\ pc = "done"
     /\ ~AnyLoadFailure
     /\ omimFile.json = BuildReverse(monarchFile.json)
     /\ NoCollisions(monarchFile.json)) =>
        \A k \in DOMAIN monarchFile.json :
            LET e == monarchFile.json[k].externalId
                n == monarchFile.json[k].name
            IN  /\ getOmimToMonarch(e) = Return([knowledgeBaseId |-> JsString(k), name |-> n])
                /\ getMonarchToOmim(JsString(k)) = Return([externalId |-> e, name |-> n])

\* Two forward entries without collision were loaded with their reverse
\* index, and a reverse lookup made after the load returned the first one.
C7_Witness ==
    /\ pc = "done"
    /\ ~AnyLoadFailure
    /\ DOMAIN monarchFile.json = {HP1, HP2}
    /\ NoCollisions(monarchFile.json)
    /\ omimFile.json = BuildReverse(monarchFile.json)
    /\ lastCall = [op |-> "getOmimToMonarch", arg |-> JsString(<<"1">>),
                   result |-> Return(ReverseRecord(HP1, NameOf(HP1))), at |-> "done"]

\* C8: for every id and every table state, getDiseaseName(id) is the name
\* field of getMonarchToOmim(id) when that lookup hits and null when it
\* misses, and getOmimName(id) is the same of getOmimToMonarch(id).
C8_NameAccessorsAgree ==
    /\ \A id \in MonarchIds :
        LET found == getMonarchToOmim(id)
        IN  found.kind = "return" =>
                getDiseaseName(id) =
                    Return(IF found.value = null THEN null ELSE found.value.name)
    /\ \A id \in OmimIds :
        LET found == getOmimToMonarch(id)
        IN  found.kind = "return" =>
                getOmimName(id) =
                    Return(IF found.value = null THEN null ELSE found.value.name)

\* getOmimName returned the name of a loaded reverse record.
C8_Witness ==
    /\ <<"1">> \in DOMAIN omimMappings
    /\ CalledNow("getOmimName")
    /\ lastCall.arg = JsString(OMIM_PREFIX \o <<"1">>)
    /\ lastCall.result = Return(omimMappings[<<"1">>].name)

\* C9, as claimed: once a table has been populated no later step changes it,
\* so a lookup that has once returned a record for an id returns the same
\* record on every later call.
C9_Original_HitStaysAHit ==
    (lastCall.op # "none" /\ lastCall.result.value \in StoredRecords) =>
        Lookup(lastCall.op, lastCall.arg) = lastCall.result

MonarchPopulated == pc = "awaitOmimJson" \/ (pc = "done" /\ consoleErrors = 0)

OmimPopulated == pc = "done" /\ consoleErrors = 0

\* C9, amended: no lookup or name accessor ever changes a table, and once
\* loadMappings has ended neither table changes again; the one step that
\* changes a populated table is the error handler of loadMappings, which
\* empties the forward table when the reverse file then fails to parse.
C9_Amended_OnlyTheErrorHandlerResets ==
    [][/\ (pc = "done" \/ lastCall' # lastCall) =>
            /\ monarchMappings' = monarchMappings
            /\ omimMappings' = omimMappings
       /\ (MonarchPopulated /\ monarchMappings' # monarchMappings) =>
            /\ pc = "awaitOmimJson"
            /\ ~omimFile.parses
            /\ monarchMappings' = EmptyObject
       /\ OmimPopulated => omimMappings' = omimMappings]_vars

\* Both tables were loaded and a lookup made after that returned a record.
C9_Witness ==
    /\ pc = "done"
    /\ consoleErrors = 0
    /\ lastCall.at = "done"
    /\ lastCall.op = "getMonarchToOmim"
    /\ lastCall.result.value \in Range(monarchMappings)

\* C10: no lookup executes in a state where the load has not finished, or
\* where one table has been populated and the other has not.
C10_NoLookupBeforeLoadEnds == lastCall.op # "none" => lastCall.at = "done"
====
